---- MODULE Spec2Model ----
(***************************************************************************)
(* A model of the two entry points of infra-deployer:                      *)
(*   deploy-infra.py  main(): parse_args, cleanup, assume_role,            *)
(*                    generate_terraform_config, terraform, cleanup        *)
(*   release.py       Release.create() and the ECR push it may end with    *)
(*                                                                         *)
(* Strings that the code splits are kept as the list of their pieces: an   *)
(* argument "env=a" is <<"env", "a">> (its pieces between "="), and a      *)
(* decoded authorization token "AWS:pw" is <<"AWS", "pw">> (its pieces     *)
(* between ":").                                                           *)
(***************************************************************************)
EXTENDS Integers, Sequences, FiniteSets, TLC

VARIABLES
    \* ---- deploy-infra.py ----
    argv,           \* sys.argv[1:]
    pc,             \* position of main()
    parsed_args,    \* found_vars returned by parse_args
    role_creds,     \* what assume_role returned
    state_tf,       \* contents of infra/state.tf, or NoFile
    dot_terraform,  \* infra/.terraform exists
    secrets_link,   \* /tmp/secrets.json: the path it links to, or NoFile
    tmp_secrets,    \* path returned by Credstash._generate_decrypted_credentials
    log,            \* the effects of the current run, in order
    failed_at,      \* the step whose error ended the run
    exit_status,    \* process exit status, or Running
    run,            \* number of the current run
    os_environ,     \* os.environ of the deploy-infra process
    child_env,      \* the env= handed to the child processes, or NoEnv
    cleaned,        \* what the two removals of the latest cleanup() met, or NoResult
    \* ---- release.py ----
    version,        \* self.version (None when no <version> was given)
    metadata,       \* self.metadata
    metadata0,      \* self.metadata as __init__ left it
    hooks,          \* which of the two hook files are executable
    aws,            \* self.aws
    rpc,            \* position of Release.create()
    repo,           \* the ECR repository of the component: [exists, policy]
    repo0,          \* the repository when the current release started
    auth_data,      \* authorizationData returned by get_authorization_token
    logged_in,      \* endpoints whose docker login succeeded
    calls,          \* the external calls of the current release, in order
    raised,         \* the exception that ended the release
    rfailed_at,     \* the step whose error ended the release
    prev_ensure,    \* how _ensure_ecr_repository_exists ended in the previous release
    release,        \* number of the current release
    sessions        \* the sessions the ECR calls of the current release were made with

infraVars == <<argv, pc, parsed_args, role_creds, state_tf, dot_terraform,
               secrets_link, tmp_secrets, log, failed_at, exit_status, run,
               os_environ, child_env, cleaned>>
releaseVars == <<version, metadata, metadata0, hooks, aws, rpc, repo, repo0,
                 auth_data, logged_in, calls, raised, rfailed_at, prev_ensure,
                 release, sessions>>
vars == <<infraVars, releaseVars>>

\* Python's None where the other values are strings
None == "None"
\* An optional value that is no string is <<>> when absent and <<value>> or a
\* longer tuple when present: a file, the credentials, a raised exception
NoFile == <<>>
NoCreds == <<>>
NoPath == <<>>
NoError == <<>>
NoEnv == <<>>
NoResult == <<>>
Running == <<"running">>
Exit(status) == <<"exit", status>>

\* ---- bounds ----
MaxArgs == 6
MaxRuns == 2
MaxEndpoints == 2
MaxReleases == 2

(***************************************************************************)
(* deploy-infra.py                                                         *)
(***************************************************************************)
s3_bucket_prefix == "terraform-tfstate-"
required_vars == <<"env", "component", "state_aws_region", "aws_region", "account_id">>
optional_vars == <<"state_aws_region">>

\* The arguments a command line is drawn from.
ArgUniverse ==
    { <<"plan">>,
      <<"env", "staging">>,
      <<"component", "payments">>,
      <<"state_aws_region", "eu-west-1">>,
      <<"aws_region", "us-east-1">>,
      <<"aws_region", "eu-west-2">>,
      <<"account_id", "123456789012">> }

\* The command lines: up to MaxArgs arguments, none given twice word for word
\* (the same variable may be assigned twice, with different values).
ArgLists ==
    UNION { { a \in [1..n -> ArgUniverse] : \A i, j \in 1..n : a[i] = a[j] => i = j }
            : n \in 0..MaxArgs }

\* re.compile('^' + var + '=').search(arg)
Matches(var, arg) == Len(arg) >= 2 /\ arg[1] = var

\* found_vars[var] = value
SetVar(found, var, value) ==
    [x \in DOMAIN found \cup {var} |-> IF x = var THEN value ELSE found[x]]

\* for arg in args: if regex.search(arg): found_vars[var] = arg.split("=")[1]
RECURSIVE ScanArgs(_, _, _)
ScanArgs(var, args, found) ==
    IF args = <<>> THEN found
    ELSE ScanArgs(var, Tail(args),
                  IF Matches(var, Head(args))
                  THEN SetVar(found, var, Head(args)[2])
                  ELSE found)

\* for var in names: <scan the arguments>
RECURSIVE ScanVars(_, _, _)
ScanVars(names, args, found) ==
    IF names = <<>> THEN found
    ELSE ScanVars(Tail(names), args, ScanArgs(Head(names), args, found))

EmptyMap == [x \in {} |-> ""]

\* found_vars after the two extraction loops of parse_args
found_vars(args) == ScanVars(optional_vars, args, ScanVars(required_vars, args, EmptyMap))

\* (changed) the final loop returns after its first turn
parse_args_exits_first(args) == required_vars[1] \notin DOMAIN found_vars(args)

\* the final loop of parse_args: sys.exit(1) at the first required variable not found
parse_args_exits(args) ==
    \E i \in 1..Len(required_vars) : required_vars[i] \notin DOMAIN found_vars(args)

\* hashlib.md5(account_id.encode('utf-8')).hexdigest()[:6]
Md5Hex6(account_id) == <<"md5[:6]", account_id>>

\* parsed_args.get('state_aws_region', parsed_args['aws_region'])
BackendRegion(parsed) ==
    IF "state_aws_region" \in DOMAIN parsed THEN parsed["state_aws_region"]
    ELSE parsed["aws_region"]

\* (changed) the state file is keyed by the state_file_id of line 34
generate_terraform_config_by_id(parsed) ==
    [ bucket         |-> <<s3_bucket_prefix, Md5Hex6(parsed["account_id"])>>,
      key            |-> <<parsed["env"], "-", parsed["component"]>>,
      region         |-> BackendRegion(parsed),
      dynamodb_table |-> "terraform_locks" ]

\* the text written to infra/state.tf
generate_terraform_config(parsed) ==
    [ bucket         |-> <<s3_bucket_prefix, Md5Hex6(parsed["account_id"])>>,
      key            |-> <<parsed["env"], "/", parsed["component"], "/terraform.tfstate">>,
      region         |-> BackendRegion(parsed),
      dynamodb_table |-> "terraform_locks" ]

\* the keys generate_terraform_config reads (a KeyError otherwise)
ConfigKeys == {"aws_region", "env", "component", "account_id"}

\* the environment the shell starts deploy-infra with: the caller's own,
\* unprivileged identity
ShellEnv == [k \in {"PATH", "AWS_ACCESS_KEY_ID"} |->
               IF k = "PATH" THEN "/usr/bin" ELSE "caller-key"]

\* env[key] = value
SetEnv(env, key, value) ==
    [k \in DOMAIN env \cup {key} |-> IF k = key THEN value ELSE env[k]]

\* terraform, lines 74-78: the copy of os.environ with the credentials and the region
ChildEnv(environ, creds, parsed) ==
    SetEnv(SetEnv(SetEnv(SetEnv(environ,
        "AWS_ACCESS_KEY_ID", creds.Credentials.AccessKeyId),
        "AWS_SECRET_ACCESS_KEY", creds.Credentials.SecretAccessKey),
        "AWS_SESSION_TOKEN", creds.Credentials.SessionToken),
        "AWS_DEFAULT_REGION", parsed["aws_region"])

\* what sts assume_role answers
AssumedRole(account_id) ==
    [ RoleArn         |-> <<"arn:aws:iam::", account_id, ":role/admin">>,
      RoleSessionName |-> "terraform",
      Credentials     |-> [ AccessKeyId     |-> "assumed-access-key",
                            SecretAccessKey |-> "assumed-secret-key",
                            SessionToken    |-> "assumed-session-token" ] ]

InitInfra ==
    /\ argv \in ArgLists
    /\ pc = "parse_args"
    /\ parsed_args = EmptyMap
    /\ role_creds = NoCreds
    /\ state_tf = NoFile
    /\ dot_terraform = FALSE
    /\ secrets_link = NoFile
    /\ tmp_secrets = NoPath
    /\ log = <<>>
    /\ failed_at = None
    /\ exit_status = Running
    /\ run = 1
    /\ os_environ = ShellEnv
    /\ child_env = NoEnv
    /\ cleaned = NoResult

\* an uncaught exception ends the process with a traceback
Fail(step) ==
    /\ pc' = "failed"
    /\ failed_at' = step
    /\ exit_status' = Exit(1)

\* main, line 125: parsed_args = parse_args(all_args)
MainParseArgs ==
    /\ pc = "parse_args"
    /\ IF parse_args_exits(argv)
       THEN /\ pc' = "exited"
            /\ exit_status' = Exit(1)
            /\ UNCHANGED parsed_args
       ELSE /\ pc' = "cleanup"
            /\ parsed_args' = found_vars(argv)
            /\ UNCHANGED exit_status
    /\ UNCHANGED <<argv, role_creds, state_tf, dot_terraform, secrets_link,
                   tmp_secrets, log, failed_at, run>>
    /\ UNCHANGED <<os_environ, child_env, cleaned>>
    /\ UNCHANGED releaseVars

\* how os.remove("infra/state.tf") can end: it raises when the file is not
\* there, and may raise when it is
RemoveOutcomes == IF state_tf = NoFile THEN {FALSE} ELSE BOOLEAN

\* how shutil.rmtree("infra/.terraform") can end
RmtreeOutcomes == IF dot_terraform THEN BOOLEAN ELSE {FALSE}

\* (changed) both removals under one try: an error of the first skips the second
cleanup_one_try(remove_ok, rmtree_ok) ==
    /\ state_tf' = IF remove_ok THEN NoFile ELSE state_tf
    /\ dot_terraform' = IF remove_ok /\ rmtree_ok THEN FALSE ELSE dot_terraform
    /\ cleaned' = <<[remove_ok |-> remove_ok, rmtree_ok |-> rmtree_ok]>>

\* cleanup(): each removal is attempted and its error swallowed
cleanup(remove_ok, rmtree_ok) ==
    /\ state_tf' = IF remove_ok THEN NoFile ELSE state_tf
    /\ dot_terraform' = IF rmtree_ok THEN FALSE ELSE dot_terraform
    /\ cleaned' = <<[remove_ok |-> remove_ok, rmtree_ok |-> rmtree_ok]>>

\* main, line 127: cleanup()
MainCleanupStart ==
    /\ pc = "cleanup"
    /\ \E remove_ok \in RemoveOutcomes, rmtree_ok \in RmtreeOutcomes :
          cleanup(remove_ok, rmtree_ok)
    /\ log' = Append(log, <<"cleanup">>)
    /\ pc' = "assume_role"
    /\ UNCHANGED <<argv, parsed_args, role_creds, secrets_link, tmp_secrets,
                   failed_at, exit_status, run>>
    /\ UNCHANGED <<os_environ, child_env>>
    /\ UNCHANGED releaseVars

\* (changed) the error of assume_role is swallowed and main goes on
MainAssumeRoleSwallowed ==
    /\ pc = "assume_role"
    /\ pc' = "generate"
    /\ UNCHANGED <<argv, parsed_args, role_creds, state_tf, dot_terraform, secrets_link,
                   tmp_secrets, log, failed_at, exit_status, run>>
    /\ cleaned' = NoResult
    /\ UNCHANGED <<os_environ, child_env>>
    /\ UNCHANGED releaseVars

\* main, line 128: role_creds = assume_role(parsed_args)
MainAssumeRole ==
    /\ pc = "assume_role"
    /\ \/ /\ "account_id" \in DOMAIN parsed_args
          /\ role_creds' = <<AssumedRole(parsed_args["account_id"])>>
          /\ log' = Append(log, <<"assume_role">>)
          /\ pc' = "generate"
          /\ UNCHANGED <<failed_at, exit_status>>
       \/ /\ Fail("assume_role")
          /\ UNCHANGED <<role_creds, log>>
    /\ UNCHANGED <<argv, parsed_args, state_tf, dot_terraform, secrets_link,
                   tmp_secrets, run>>
    /\ cleaned' = NoResult
    /\ UNCHANGED <<os_environ, child_env>>
    /\ UNCHANGED releaseVars

\* main, line 130: generate_terraform_config(parsed_args)
MainGenerateConfig ==
    /\ pc = "generate"
    /\ IF ConfigKeys \subseteq DOMAIN parsed_args
       THEN /\ state_tf' = <<generate_terraform_config(parsed_args)>>
            /\ log' = Append(log, <<"write state.tf">>)
            /\ pc' = "terraform"
            /\ UNCHANGED <<failed_at, exit_status>>
       ELSE /\ Fail("generate")
            /\ UNCHANGED <<state_tf, log>>
    /\ UNCHANGED <<argv, parsed_args, role_creds, dot_terraform, secrets_link,
                   tmp_secrets, run>>
    /\ UNCHANGED <<os_environ, child_env, cleaned>>
    /\ UNCHANGED releaseVars

\* (changed) env = os.environ without the copy: the credentials land in the
\* process's own environment
TerraformSecretsNoCopy ==
    /\ pc = "terraform"
    /\ \/ /\ tmp_secrets' = <<"/tmp/decrypted", run>>
          /\ log' = Append(log, <<"credstash">>)
          /\ pc' = "symlink"
          /\ UNCHANGED <<failed_at, exit_status>>
       \/ /\ Fail("credstash")
          /\ log' = Append(log, <<"credstash">>)
          /\ UNCHANGED tmp_secrets
    /\ UNCHANGED <<argv, parsed_args, role_creds, state_tf, dot_terraform,
                   secrets_link, run>>
    /\ os_environ' = ChildEnv(os_environ, role_creds[1], parsed_args)
    /\ child_env' = <<os_environ'>>
    /\ UNCHANGED cleaned
    /\ UNCHANGED releaseVars

\* terraform, lines 72-80: build the child environment, decrypt the secrets
TerraformSecrets ==
    /\ pc = "terraform"
    /\ \/ /\ tmp_secrets' = <<"/tmp/decrypted", run>>
          /\ log' = Append(log, <<"credstash">>)
          /\ pc' = "symlink"
          /\ UNCHANGED <<failed_at, exit_status>>
       \/ /\ Fail("credstash")
          /\ log' = Append(log, <<"credstash">>)
          /\ UNCHANGED tmp_secrets
    /\ UNCHANGED <<argv, parsed_args, role_creds, state_tf, dot_terraform,
                   secrets_link, run>>
    /\ child_env' = <<ChildEnv(os_environ, role_creds[1], parsed_args)>>
    /\ UNCHANGED <<os_environ, cleaned>>
    /\ UNCHANGED releaseVars

\* terraform, line 82: os.symlink(tmp_secrets, '/tmp/secrets.json')
TerraformSymlink ==
    /\ pc = "symlink"
    /\ IF secrets_link = NoFile
       THEN /\ secrets_link' = tmp_secrets
            /\ log' = Append(log, <<"symlink">>)
            /\ pc' = "init"
            /\ UNCHANGED <<failed_at, exit_status>>
       ELSE /\ Fail("symlink")
            /\ UNCHANGED <<secrets_link, log>>
    /\ UNCHANGED <<argv, parsed_args, role_creds, state_tf, dot_terraform,
                   tmp_secrets, run>>
    /\ UNCHANGED <<os_environ, child_env, cleaned>>
    /\ UNCHANGED releaseVars

\* terraform, line 84: check_call(["terraform", "init"], env=env, cwd='infra')
TerraformInit ==
    /\ pc = "init"
    /\ log' = Append(log, <<"terraform", "init">>)
    /\ \/ /\ dot_terraform' = TRUE
          /\ pc' = "command"
          /\ UNCHANGED <<failed_at, exit_status>>
       \/ /\ \E created \in BOOLEAN : dot_terraform' = (dot_terraform \/ created)
          /\ Fail("init")
    /\ UNCHANGED <<argv, parsed_args, role_creds, state_tf, secrets_link,
                   tmp_secrets, run>>
    /\ UNCHANGED <<os_environ, child_env, cleaned>>
    /\ UNCHANGED releaseVars

\* (changed) the assignments parse_args extracted are taken out of the
\* forwarded arguments
TerraformCommandStripped ==
    /\ pc = "command"
    /\ log' = Append(log, <<"terraform">> \o SelectSeq(argv, LAMBDA arg : Len(arg) < 2))
    /\ \/ /\ pc' = "cleanup_end"
          /\ UNCHANGED <<failed_at, exit_status>>
       \/ Fail("command")
    /\ UNCHANGED <<argv, parsed_args, role_creds, state_tf, dot_terraform,
                   secrets_link, tmp_secrets, run>>
    /\ UNCHANGED <<os_environ, child_env, cleaned>>
    /\ UNCHANGED releaseVars

\* terraform, line 85: check_call(["terraform"] + all_args, env=env, cwd='infra')
TerraformCommand ==
    /\ pc = "command"
    /\ log' = Append(log, <<"terraform">> \o argv)
    /\ \/ /\ pc' = "cleanup_end"
          /\ UNCHANGED <<failed_at, exit_status>>
       \/ Fail("command")
    /\ UNCHANGED <<argv, parsed_args, role_creds, state_tf, dot_terraform,
                   secrets_link, tmp_secrets, run>>
    /\ UNCHANGED <<os_environ, child_env, cleaned>>
    /\ UNCHANGED releaseVars

\* main, line 132: cleanup(), then the process ends
MainCleanupEnd ==
    /\ pc = "cleanup_end"
    /\ \E remove_ok \in RemoveOutcomes, rmtree_ok \in RmtreeOutcomes :
          cleanup(remove_ok, rmtree_ok)
    /\ log' = Append(log, <<"cleanup">>)
    /\ pc' = "done"
    /\ exit_status' = Exit(0)
    /\ UNCHANGED <<argv, parsed_args, role_creds, secrets_link, tmp_secrets,
                   failed_at, run>>
    /\ UNCHANGED <<os_environ, child_env>>
    /\ UNCHANGED releaseVars

\* the operator runs the command again in the same working directory, as it
\* was or with its last argument left off
NewRun ==
    /\ pc \in {"done", "failed", "exited"}
    /\ run < MaxRuns
    /\ argv' \in {argv, SubSeq(argv, 1, Len(argv) - 1)}
    /\ run' = run + 1
    /\ pc' = "parse_args"
    /\ parsed_args' = EmptyMap
    /\ role_creds' = NoCreds
    /\ tmp_secrets' = NoPath
    /\ log' = <<>>
    /\ failed_at' = None
    /\ exit_status' = Running
    /\ UNCHANGED <<state_tf, dot_terraform, secrets_link>>
    /\ os_environ' = ShellEnv
    /\ child_env' = NoEnv
    /\ cleaned' = NoResult
    /\ UNCHANGED releaseVars

(***************************************************************************)
(* release.py                                                              *)
(***************************************************************************)
\* the decoded authorization tokens, as their pieces between ":"
TokenShapes == { <<"AWS", "pw">>, <<"AWS">>, <<"AWS", "p", "w">> }

AuthEntries == [authorizationToken : TokenShapes, proxyEndpoint : 1..MaxEndpoints]

\* authorizationData: one entry per endpoint, endpoint i at place i
AuthData ==
    UNION { { a \in [1..n -> AuthEntries] : \A i \in 1..n : a[i].proxyEndpoint = i }
            : n \in 1..MaxEndpoints }

Absent == [exists |-> FALSE, policy |-> FALSE]
Provisioned == [exists |-> TRUE, policy |-> TRUE]

\* Release.__init__ (the session may have been injected with _set_aws)
InitRelease ==
    /\ version \in {None, "1.0"}
    /\ metadata \in [TYPE : {"slug", "docker"}, DOCKER_BUILD_DIR : {"."},
                    REGION : {"eu-west-1"}, ACCOUNT_PREFIX : {"mmg"},
                    SLUG_BUILDER_DOCKER_OPTS : {""}]
    /\ metadata0 = metadata
    /\ hooks \in SUBSET {"prepare-docker-build", "on-docker-build"}
    /\ aws \in {None, "injected"}
    /\ rpc = "start"
    /\ repo \in {Absent, Provisioned}
    /\ repo0 = repo
    /\ auth_data = <<>>
    /\ logged_in = {}
    /\ calls = <<>>
    /\ raised = NoError
    /\ rfailed_at = None
    /\ prev_ensure = None
    /\ release = 1
    /\ sessions = {}

\* an exception leaves create(); main() catches only util.UserError
Raise(step, exc) ==
    /\ rpc' = "failed"
    /\ rfailed_at' = step
    /\ raised' = exc

Called(name, outcome) == calls' = Append(calls, <<name, outcome>>)

\* (changed) the session is not kept in self.aws
get_aws_not_kept == IF aws = "injected" THEN aws ELSE None

\* _get_aws: the session is assumed the first time it is asked for, and kept
get_aws == IF aws = None THEN "assumed" ELSE aws

\* the number of util.assume_role calls of the current release
AssumeCount == Cardinality({i \in 1..Len(calls) : calls[i][1] = "assume_role"})

\* the session _get_aws() returns: the injected one, or the one made by the
\* latest util.assume_role call (a new one if self.aws is None)
Session ==
    IF aws = "injected" THEN <<"injected", 0>>
    ELSE IF aws = None THEN <<"assumed", AssumeCount + 1>>
    ELSE <<"assumed", AssumeCount>>

\* _ecr().<name>(...): the calls one ECR request adds, and the session it uses
EcrCalled(name, outcome) ==
    /\ calls' = calls \o (IF aws = None THEN <<<<"assume_role", "ok">>>> ELSE <<>>)
                      \o <<<<name, outcome>>>>
    /\ sessions' = sessions \cup {Session}

\* (changed) _build_slug() is called whatever TYPE is
CreateBuildSlugAlways ==
    /\ rpc = "start"
    /\ \/ /\ metadata' = [metadata EXCEPT !.DOCKER_BUILD_DIR = "target"]
          /\ Called("build_slug", "ok")
          /\ rpc' = "prehook"
          /\ UNCHANGED <<raised, rfailed_at>>
       \/ /\ Called("build_slug", "error")
          /\ Raise("build_slug", <<"ShellError">>)
          /\ UNCHANGED metadata
    /\ UNCHANGED <<version, metadata0, hooks, aws, repo, repo0, auth_data,
                   logged_in, prev_ensure, release, sessions>>
    /\ UNCHANGED infraVars

\* create, lines 106-107: if TYPE is 'slug', _build_slug()
CreateBuildSlug ==
    /\ rpc = "start"
    /\ IF metadata.TYPE = "slug"
       THEN \/ /\ metadata' = [metadata EXCEPT !.DOCKER_BUILD_DIR = "target"]
               /\ Called("build_slug", "ok")
               /\ rpc' = "prehook"
               /\ UNCHANGED <<raised, rfailed_at>>
            \/ /\ Called("build_slug", "error")
               /\ Raise("build_slug", <<"ShellError">>)
               /\ UNCHANGED metadata
       ELSE /\ rpc' = "prehook"
            /\ UNCHANGED <<metadata, calls, raised, rfailed_at>>
    /\ UNCHANGED <<version, metadata0, hooks, aws, repo, repo0, auth_data,
                   logged_in, prev_ensure, release, sessions>>
    /\ UNCHANGED infraVars

\* (changed) the exit status of the pre-build hook is not checked
CreatePreBuildHookUnchecked ==
    /\ rpc = "prehook"
    /\ IF "prepare-docker-build" \in hooks
       THEN \E outcome \in {"ok", "error"} : Called("prepare-docker-build", outcome)
       ELSE UNCHANGED calls
    /\ rpc' = "build"
    /\ UNCHANGED <<raised, rfailed_at>>
    /\ UNCHANGED <<version, metadata, metadata0, hooks, aws, repo, repo0,
                   auth_data, logged_in, prev_ensure, release, sessions>>
    /\ UNCHANGED infraVars

\* create, lines 109-114: the pre-build hook, if executable
CreatePreBuildHook ==
    /\ rpc = "prehook"
    /\ IF "prepare-docker-build" \in hooks
       THEN \/ /\ Called("prepare-docker-build", "ok")
               /\ rpc' = "build"
               /\ UNCHANGED <<raised, rfailed_at>>
            \/ /\ Called("prepare-docker-build", "error")
               /\ Raise("prehook", <<"CalledProcessError">>)
       ELSE /\ rpc' = "build"
            /\ UNCHANGED <<calls, raised, rfailed_at>>
    /\ UNCHANGED <<version, metadata, metadata0, hooks, aws, repo, repo0,
                   auth_data, logged_in, prev_ensure, release, sessions>>
    /\ UNCHANGED infraVars

\* create, lines 116-118: docker build
CreateDockerBuild ==
    /\ rpc = "build"
    /\ \/ /\ Called("docker build", "ok")
          /\ rpc' = "posthook"
          /\ UNCHANGED <<raised, rfailed_at>>
       \/ /\ Called("docker build", "error")
          /\ Raise("build", <<"CalledProcessError">>)
    /\ UNCHANGED <<version, metadata, metadata0, hooks, aws, repo, repo0,
                   auth_data, logged_in, prev_ensure, release, sessions>>
    /\ UNCHANGED infraVars

\* create, lines 120-123: the post-build hook, if executable
CreatePostBuildHook ==
    /\ rpc = "posthook"
    /\ IF "on-docker-build" \in hooks
       THEN \/ /\ Called("on-docker-build", "ok")
               /\ rpc' = "branch"
               /\ UNCHANGED <<raised, rfailed_at>>
            \/ /\ Called("on-docker-build", "error")
               /\ Raise("posthook", <<"CalledProcessError">>)
       ELSE /\ rpc' = "branch"
            /\ UNCHANGED <<calls, raised, rfailed_at>>
    /\ UNCHANGED <<version, metadata, metadata0, hooks, aws, repo, repo0,
                   auth_data, logged_in, prev_ensure, release, sessions>>
    /\ UNCHANGED infraVars

\* (changed) the push is not skipped when no version was given
CreatePushBranchAlways ==
    /\ rpc = "branch"
    /\ rpc' = "describe"
    /\ UNCHANGED <<version, metadata, metadata0, hooks, aws, repo, repo0,
                   auth_data, logged_in, calls, raised, rfailed_at, prev_ensure,
                   release, sessions>>
    /\ UNCHANGED infraVars

\* create, lines 125-130: push only if a version was given
CreatePushBranch ==
    /\ rpc = "branch"
    /\ rpc' = IF version = None THEN "done" ELSE "describe"
    /\ UNCHANGED <<version, metadata, metadata0, hooks, aws, repo, repo0,
                   auth_data, logged_in, calls, raised, rfailed_at, prev_ensure,
                   release, sessions>>
    /\ UNCHANGED infraVars

\* the error codes a failing describe_repositories answers with
NotFound == "RepositoryNotFoundException"
OtherCodes == {"AccessDeniedException"}

\* (changed) the policy is set again when the repository is there
EnsureDescribeReapplies ==
    /\ rpc = "describe"
    /\ aws' = get_aws
    /\ \/ /\ repo.exists
          /\ EcrCalled("describe_repositories", "ok")
          /\ rpc' = "set_policy"
       \/ /\ ~repo.exists
          /\ EcrCalled("describe_repositories", NotFound)
          /\ rpc' = "create_repo"
    /\ UNCHANGED <<raised, rfailed_at>>
    /\ UNCHANGED <<version, metadata, metadata0, hooks, repo, repo0, auth_data,
                   logged_in, prev_ensure, release>>
    /\ UNCHANGED infraVars

\* (changed) the except clause does not look at the error code
EnsureDescribeAnyCode ==
    /\ rpc = "describe"
    /\ aws' = get_aws
    /\ \/ /\ repo.exists
          /\ EcrCalled("describe_repositories", "ok")
          /\ rpc' = "get_token"
       \/ /\ \E code \in {NotFound} \cup OtherCodes :
                /\ code = NotFound => ~repo.exists
                /\ EcrCalled("describe_repositories", code)
          /\ rpc' = "create_repo"
    /\ UNCHANGED <<raised, rfailed_at>>
    /\ UNCHANGED <<version, metadata, metadata0, hooks, repo, repo0, auth_data,
                   logged_in, prev_ensure, release>>
    /\ UNCHANGED infraVars

\* _ensure_ecr_repository_exists, lines 137-143: describe, and the except clause
EnsureDescribe ==
    /\ rpc = "describe"
    /\ \/ \* util.assume_role fails inside the first _ecr()
          /\ aws = None
          /\ Called("assume_role", "error")
          /\ Raise("assume_role", <<"AssumeRoleError">>)
          /\ UNCHANGED <<aws, sessions>>
       \/ \* the repository is there
          /\ repo.exists
          /\ aws' = get_aws
          /\ EcrCalled("describe_repositories", "ok")
          /\ rpc' = "get_token"
          /\ UNCHANGED <<raised, rfailed_at>>
       \/ \* ClientError with the not-found code: go on to create
          /\ ~repo.exists
          /\ aws' = get_aws
          /\ EcrCalled("describe_repositories", NotFound)
          /\ rpc' = "create_repo"
          /\ UNCHANGED <<raised, rfailed_at>>
       \/ \* ClientError with another code: raise
          /\ \E code \in OtherCodes :
                /\ EcrCalled("describe_repositories", code)
                /\ Raise("describe", <<"ClientError", code>>)
          /\ aws' = get_aws
       \/ \* an exception that is no ClientError is not caught
          /\ aws' = get_aws
          /\ EcrCalled("describe_repositories", "EndpointConnectionError")
          /\ Raise("describe", <<"EndpointConnectionError">>)
    /\ UNCHANGED <<version, metadata, metadata0, hooks, repo, repo0, auth_data,
                   logged_in, prev_ensure, release>>
    /\ UNCHANGED infraVars

\* _ensure_ecr_repository_exists, lines 144-146: create_repository
EnsureCreate ==
    /\ rpc = "create_repo"
    /\ aws' = get_aws
    /\ \/ /\ ~repo.exists
          /\ repo' = [exists |-> TRUE, policy |-> FALSE]
          /\ EcrCalled("create_repository", "ok")
          /\ rpc' = "set_policy"
          /\ UNCHANGED <<raised, rfailed_at>>
       \/ /\ EcrCalled("create_repository", "error")
          /\ Raise("create_repo", <<"ClientError", "create_repository">>)
          /\ UNCHANGED repo
    /\ UNCHANGED <<version, metadata, metadata0, hooks, repo0, auth_data,
                   logged_in, prev_ensure, release>>
    /\ UNCHANGED infraVars

\* _ensure_ecr_repository_exists, lines 147-158: set_repository_policy
EnsureSetPolicy ==
    /\ rpc = "set_policy"
    /\ aws' = get_aws
    /\ \/ /\ repo.exists
          /\ repo' = [repo EXCEPT !.policy = TRUE]
          /\ EcrCalled("set_repository_policy", "ok")
          /\ rpc' = "get_token"
          /\ UNCHANGED <<raised, rfailed_at>>
       \/ /\ EcrCalled("set_repository_policy", "error")
          /\ Raise("set_policy", <<"ClientError", "set_repository_policy">>)
          /\ UNCHANGED repo
    /\ UNCHANGED <<version, metadata, metadata0, hooks, repo0, auth_data,
                   logged_in, prev_ensure, release>>
    /\ UNCHANGED infraVars

\* _push_to_ecr, line 167: get_authorization_token
PushGetToken ==
    /\ rpc = "get_token"
    /\ aws' = get_aws
    /\ \/ /\ auth_data' \in AuthData
          /\ EcrCalled("get_authorization_token", "ok")
          /\ rpc' = "login"
          /\ UNCHANGED <<raised, rfailed_at>>
       \/ /\ EcrCalled("get_authorization_token", "error")
          /\ Raise("get_token", <<"ClientError", "get_authorization_token">>)
          /\ UNCHANGED auth_data
    /\ UNCHANGED <<version, metadata, metadata0, hooks, repo, repo0, logged_in,
                   prev_ensure, release>>
    /\ UNCHANGED infraVars

\* the entry the for loop of _push_to_ecr is at
NextLogin == Cardinality(logged_in) + 1

\* (changed) the loop is left after its first login
PushDockerLoginFirstOnly ==
    /\ rpc = "login"
    /\ LET details == auth_data[NextLogin] IN
       IF Len(details.authorizationToken) # 2
       THEN /\ Raise("login", <<"ValueError">>)
            /\ UNCHANGED <<calls, logged_in>>
       ELSE \/ /\ calls' = Append(calls, <<"docker login", "ok", details.proxyEndpoint>>)
               /\ logged_in' = logged_in \cup {details.proxyEndpoint}
               /\ rpc' = "push"
               /\ UNCHANGED <<raised, rfailed_at>>
            \/ /\ Called("docker login", "error")
               /\ Raise("login", <<"CalledProcessError">>)
               /\ UNCHANGED logged_in
    /\ UNCHANGED <<version, metadata, metadata0, hooks, aws, repo, repo0,
                   auth_data, prev_ensure, release, sessions>>
    /\ UNCHANGED infraVars

\* (changed) the exit status of docker login is not checked
PushDockerLoginUnchecked ==
    /\ rpc = "login"
    /\ LET details == auth_data[NextLogin] IN
       IF Len(details.authorizationToken) # 2
       THEN /\ Raise("login", <<"ValueError">>)
            /\ UNCHANGED <<calls, logged_in>>
       ELSE \/ /\ calls' = Append(calls, <<"docker login", "ok", details.proxyEndpoint>>)
               /\ logged_in' = logged_in \cup {details.proxyEndpoint}
               /\ rpc' = IF NextLogin = Len(auth_data) THEN "push" ELSE "login"
               /\ UNCHANGED <<raised, rfailed_at>>
            \/ /\ Called("docker login", "error")
               /\ rpc' = "push"
               /\ UNCHANGED <<logged_in, raised, rfailed_at>>
    /\ UNCHANGED <<version, metadata, metadata0, hooks, aws, repo, repo0,
                   auth_data, prev_ensure, release, sessions>>
    /\ UNCHANGED infraVars

\* _push_to_ecr, lines 168-170: one turn of the login loop
PushDockerLogin ==
    /\ rpc = "login"
    /\ LET details == auth_data[NextLogin] IN
       IF Len(details.authorizationToken) # 2
       THEN \* username, password = ....split(':') does not unpack
            /\ Raise("login", <<"ValueError">>)
            /\ UNCHANGED <<calls, logged_in>>
       ELSE \/ /\ calls' = Append(calls, <<"docker login", "ok", details.proxyEndpoint>>)
               /\ logged_in' = logged_in \cup {details.proxyEndpoint}
               /\ rpc' = IF NextLogin = Len(auth_data) THEN "push" ELSE "login"
               /\ UNCHANGED <<raised, rfailed_at>>
            \/ /\ Called("docker login", "error")
               /\ Raise("login", <<"CalledProcessError">>)
               /\ UNCHANGED logged_in
    /\ UNCHANGED <<version, metadata, metadata0, hooks, aws, repo, repo0,
                   auth_data, prev_ensure, release, sessions>>
    /\ UNCHANGED infraVars

\* _push_to_ecr, lines 172-173: docker push
PushDockerPush ==
    /\ rpc = "push"
    /\ \/ /\ Called("docker push", "ok")
          /\ rpc' = "done"
          /\ UNCHANGED <<raised, rfailed_at>>
       \/ /\ Called("docker push", "error")
          /\ Raise("push", <<"CalledProcessError">>)
    /\ UNCHANGED <<version, metadata, metadata0, hooks, aws, repo, repo0,
                   auth_data, logged_in, prev_ensure, release, sessions>>
    /\ UNCHANGED infraVars

\* how _ensure_ecr_repository_exists ended in the release that has just ended
EnsureOutcome ==
    IF \E i \in 1..Len(calls) : calls[i] \in {<<"describe_repositories", "ok">>,
                                             <<"set_repository_policy", "ok">>}
    THEN "returned"
    ELSE IF \E i \in 1..Len(calls) : calls[i][1] = "describe_repositories"
    THEN "raised"
    ELSE None

\* the release is run again for the same component: a new Release object,
\* the same registry
NewRelease ==
    /\ rpc \in {"done", "failed"}
    /\ release < MaxReleases
    /\ release' = release + 1
    /\ prev_ensure' = EnsureOutcome
    /\ rpc' = "start"
    /\ metadata' = metadata0
    /\ aws' = IF aws = "injected" THEN "injected" ELSE None
    /\ repo0' = repo
    /\ auth_data' = <<>>
    /\ logged_in' = {}
    /\ calls' = <<>>
    /\ raised' = NoError
    /\ rfailed_at' = None
    /\ sessions' = {}
    /\ UNCHANGED <<version, metadata0, hooks, repo>>
    /\ UNCHANGED infraVars

(***************************************************************************)
(* release.py: the claims                                                  *)
(***************************************************************************)
\* the places of calls where name was called
Idx(name) == {i \in 1..Len(calls) : calls[i][1] = name}

\* the places of calls where name was called and ended as outcome
IdxOf(name, outcome) == {i \in Idx(name) : calls[i][2] = outcome}

ProvisioningCalls == {"describe_repositories", "create_repository", "set_repository_policy"}
RegistryCalls == ProvisioningCalls \cup {"assume_role", "get_authorization_token"}

\* _ensure_ecr_repository_exists had returned before place i of calls
ProvisionedBefore(i) ==
    /\ \E j \in Idx("describe_repositories") : j < i
    /\ \/ \E j \in IdxOf("describe_repositories", "ok") : j < i
       \/ /\ \E j \in IdxOf("create_repository", "ok") : j < i
          /\ \E j \in IdxOf("set_repository_policy", "ok") : j < i

\* the successful logins at the endpoint of entry k of auth_data
LoginsOf(k) ==
    {i \in IdxOf("docker login", "ok") : calls[i][3] = auth_data[k].proxyEndpoint}

\* C2: with a version, every docker login comes after the provisioning calls
\* and after provisioning has returned, a docker push comes after a login of
\* every entry of authorizationData (one each), there is at most one push, and
\* a release that is done has provisioned, logged in everywhere and pushed once.
C2_ProvisionLoginPushOrder ==
    version # None =>
      /\ \A i \in Idx("docker login") :
            /\ ProvisionedBefore(i)
            /\ \A name \in ProvisioningCalls : \A j \in Idx(name) : j < i
            /\ \E j \in IdxOf("get_authorization_token", "ok") : j < i
      /\ \A p \in Idx("docker push") :
            /\ \A i \in Idx("docker login") : i < p
            /\ \A k \in 1..Len(auth_data) :
                  /\ Cardinality(LoginsOf(k)) = 1
                  /\ \A i \in LoginsOf(k) : i < p
            /\ Cardinality(Idx("docker login")) = Len(auth_data)
            /\ Len(auth_data) >= 1
      /\ Cardinality(Idx("docker push")) <= 1
      /\ rpc = "done" => Cardinality(IdxOf("docker push", "ok")) = 1

\* C2 witness: a versioned release is done after creating the repository and
\* logging in at two endpoints
C2_Witness ==
    /\ version # None
    /\ rpc = "done"
    /\ Len(auth_data) = MaxEndpoints
    /\ Idx("create_repository") # {}

\* C3: a release that failed in the login loop never pushes, and a push is at
\* hand or made only when every returned endpoint has been logged in with a
\* token of two pieces and no login has failed.
C3_NoPushAfterFailedLogin ==
    /\ rfailed_at = "login" => (rpc = "failed" /\ Idx("docker push") = {})
    /\ IdxOf("docker login", "error") # {} => (rpc = "failed" /\ Idx("docker push") = {})
    /\ (rpc = "push" \/ Idx("docker push") # {}) =>
          /\ logged_in = {auth_data[k].proxyEndpoint : k \in 1..Len(auth_data)}
          /\ \A k \in 1..Len(auth_data) :
                /\ Len(auth_data[k].authorizationToken) = 2
                /\ LoginsOf(k) # {}

\* C3 witness: the first endpoint is logged in, the token of the second does
\* not decode into a pair, and the release has failed
C3_Witness ==
    /\ rfailed_at = "login"
    /\ raised = <<"ValueError">>
    /\ logged_in # {}

\* C4: without a version the release makes no role assumption, no ECR call,
\* no docker login and no docker push, and from the push branch it goes to
\* done without an error.
C4_NoVersionNoPush ==
    /\ [](version = None =>
            /\ \A i \in 1..Len(calls) :
                  calls[i][1] \notin RegistryCalls \cup {"docker login", "docker push"}
            /\ aws # "assumed"
            /\ repo = repo0
            /\ logged_in = {}
            /\ rpc \in {"start", "prehook", "build", "posthook", "branch", "done", "failed"})
    /\ [][ (version = None /\ rpc = "branch") =>
              (rpc' = "done" /\ raised' = NoError /\ calls' = calls) ]_vars

\* C4 witness: an unversioned release is done after its docker build
C4_Witness ==
    /\ version = None
    /\ rpc = "done"
    /\ IdxOf("docker build", "ok") # {}

\* C5: whenever _ensure_ecr_repository_exists has returned, in whatever
\* release, the repository exists and has the pull policy.
C5_EnsureLeavesPolicy ==
    (\/ IdxOf("describe_repositories", "ok") # {}
     \/ IdxOf("set_repository_policy", "ok") # {}) => (repo.exists /\ repo.policy)

\* C6: when describe succeeds the release calls neither create_repository nor
\* set_repository_policy and the registry stays as it was; the ensure that
\* follows an ensure that returned leaves the registry as that one left it.
C6_EnsureIdempotent ==
    /\ IdxOf("describe_repositories", "ok") # {} =>
          /\ Idx("create_repository") = {}
          /\ Idx("set_repository_policy") = {}
          /\ repo = repo0
    /\ prev_ensure = "returned" =>
          /\ repo = repo0
          /\ Idx("create_repository") = {}
          /\ Idx("set_repository_policy") = {}

\* C6 witness: the second release finds the repository the first one ensured
C6_Witness ==
    /\ release = 2
    /\ prev_ensure = "returned"
    /\ IdxOf("describe_repositories", "ok") # {}

\* the calls _ensure_ecr_repository_exists and _push_to_ecr make after describe
AfterDescribe == {"create_repository", "set_repository_policy",
                  "get_authorization_token", "docker login", "docker push"}

\* C7: when describe fails with a code other than RepositoryNotFoundException
\* that error leaves create(), no create, set-policy, token, login or push call
\* is made and the registry is untouched; create_repository is called only
\* right after a describe that answered RepositoryNotFoundException.
C7_OtherDescribeErrorRaised ==
    /\ \A i \in Idx("describe_repositories") :
          calls[i][2] \notin {"ok", NotFound} =>
             /\ i = Len(calls)
             /\ rpc = "failed"
             /\ rfailed_at = "describe"
             /\ raised \in {<<"ClientError", calls[i][2]>>, <<calls[i][2]>>}
             /\ \A name \in AfterDescribe : Idx(name) = {}
             /\ repo = repo0
    /\ \A i \in Idx("create_repository") :
          /\ i > 1
          /\ calls[i - 1] = <<"describe_repositories", NotFound>>

\* C7 witness: describe was denied and the release has failed with that error
C7_Witness ==
    /\ rfailed_at = "describe"
    /\ raised = <<"ClientError", "AccessDeniedException">>

\* the place of a call in the order of create(): slug build, pre-build hook,
\* docker build, post-build hook, then the calls of the push branch
Stage(name) ==
    CASE name = "build_slug" -> 1
      [] name = "prepare-docker-build" -> 2
      [] name = "docker build" -> 3
      [] name = "on-docker-build" -> 4
      [] OTHER -> 5

\* the stage was called at a place before i and ended well
OkBefore(name, i) == \E j \in IdxOf(name, "ok") : j < i

\* C11: the calls of create() come in the order slug build, pre-build hook,
\* docker build, post-build hook, push branch, each of the first four at most
\* once and only if enabled (TYPE is slug, the hook is executable); a call that
\* failed is the last call and the release has failed; a later stage is called
\* only after every enabled earlier stage has ended well.
C11_StagesInOrder ==
    /\ \A i, j \in 1..Len(calls) :
          i < j => /\ Stage(calls[i][1]) <= Stage(calls[j][1])
                   /\ Stage(calls[i][1]) < 5 => Stage(calls[i][1]) < Stage(calls[j][1])
    /\ \A i \in 1..Len(calls) :
          LET name == calls[i][1] IN
          /\ calls[i][2] = "error" => (i = Len(calls) /\ rpc = "failed")
          /\ name = "build_slug" => metadata0.TYPE = "slug"
          /\ name = "prepare-docker-build" => name \in hooks
          /\ name = "on-docker-build" => name \in hooks
          /\ Stage(name) >= 2 => (metadata0.TYPE = "slug" => OkBefore("build_slug", i))
          /\ Stage(name) >= 3 =>
                ("prepare-docker-build" \in hooks => OkBefore("prepare-docker-build", i))
          /\ Stage(name) >= 4 => OkBefore("docker build", i)
          /\ Stage(name) >= 5 =>
                ("on-docker-build" \in hooks => OkBefore("on-docker-build", i))
    /\ rfailed_at \in {"build_slug", "prehook"} => Idx("docker build") = {}
    /\ rfailed_at \in {"build_slug", "prehook", "build", "posthook"} =>
          /\ rpc = "failed"
          /\ \A i \in 1..Len(calls) : Stage(calls[i][1]) < 5
    /\ rfailed_at = "build" => Idx("on-docker-build") = {}

\* C11 witness: after a slug build the pre-build hook has failed
C11_Witness ==
    /\ rfailed_at = "prehook"
    /\ IdxOf("build_slug", "ok") # {}
    /\ IdxOf("prepare-docker-build", "error") # {}

\* C12 as claimed: in every state of a release self.metadata is what __init__
\* left, DOCKER_BUILD_DIR included.
C12_MetadataNeverMutated == metadata = metadata0

\* C12 as amended: every field of self.metadata other than DOCKER_BUILD_DIR
\* is what __init__ left; DOCKER_BUILD_DIR is what __init__ left for a TYPE
\* other than slug and, for slug, until _build_slug has ended well, and
\* 'target' from then on.
C12_OnlyBuildDirChanges ==
    /\ DOMAIN metadata = DOMAIN metadata0
    /\ \A f \in DOMAIN metadata0 \ {"DOCKER_BUILD_DIR"} : metadata[f] = metadata0[f]
    /\ metadata.DOCKER_BUILD_DIR =
          IF metadata0.TYPE = "slug" /\ IdxOf("build_slug", "ok") # {}
          THEN "target"
          ELSE metadata0.DOCKER_BUILD_DIR

\* C12 witness: a slug release has built its image from 'target'
C12_Witness ==
    /\ metadata0.TYPE = "slug"
    /\ IdxOf("docker build", "ok") # {}
    /\ metadata.DOCKER_BUILD_DIR = "target"
    /\ metadata0.DOCKER_BUILD_DIR = "."

\* the calls made through _ecr()
EcrCalls == {"describe_repositories", "create_repository", "set_repository_policy",
             "get_authorization_token"}

\* C18: in one release util.assume_role is called at most once, not at all
\* when a session was injected or when no ECR call is made, and only as part
\* of the first ECR call; all ECR calls of the release use one session.
C18_OneLazySession ==
    /\ Cardinality(Idx("assume_role")) <= 1
    /\ aws = "injected" => Idx("assume_role") = {}
    /\ version = None => (Idx("assume_role") = {} /\ aws # "assumed")
    /\ \A i \in Idx("assume_role") :
          /\ \A j \in 1..(i - 1) : calls[j][1] \notin EcrCalls
          /\ calls[i][2] = "ok" => (i < Len(calls) /\ calls[i + 1][1] \in EcrCalls)
          /\ calls[i][2] = "error" => (i = Len(calls) /\ rpc = "failed")
    /\ (\E i \in 1..Len(calls) : calls[i][1] \in EcrCalls) =>
          /\ Cardinality(sessions) = 1
          /\ aws # "injected" => (IdxOf("assume_role", "ok") # {} /\ aws = "assumed")
    /\ (\A i \in 1..Len(calls) : calls[i][1] \notin EcrCalls) => sessions = {}

\* C18 witness: describe, create, set-policy and the token call have all been
\* made after one role assumption
C18_Witness ==
    /\ aws = "assumed"
    /\ \A name \in EcrCalls : Idx(name) # {}
    /\ IdxOf("get_authorization_token", "ok") # {}
    /\ Cardinality(Idx("assume_role")) = 1

(***************************************************************************)
(* deploy-infra.py: the claims                                             *)
(***************************************************************************)
\* the places of the log where the effect is named name
At(name) == {i \in 1..Len(log) : log[i][1] = name}

\* some argument of args assigns var
Assigns(var, args) == \E i \in 1..Len(args) : Matches(var, args[i])

\* the value the last assignment of var in args gives it
Assigned(var, args) ==
    LET at == {i \in 1..Len(args) : Matches(var, args[i])}
        last == CHOOSE i \in at : \A j \in at : j <= i
    IN  args[last][2]

\* terraform() has been entered in the current run
TerraformEntered == At("credstash") # {}

\* the cleanups of the current run that followed the entry of terraform()
ClosingCleanups == {i \in At("cleanup") : \E j \in At("credstash") : j < i}

\* C1: a run that reached terraform() and has ended, successfully or by a
\* failure of the secrets step, the symlink, terraform init or the forwarded
\* command, has run the closing cleanup exactly once.
C1_CleanupOnEveryExit ==
    (pc \in {"done", "failed"} /\ TerraformEntered) => Cardinality(ClosingCleanups) = 1

\* the argument list lacks an assignment for some variable parse_args requires
MissingRequired(args) ==
    \E i \in 1..Len(required_vars) : ~Assigns(required_vars[i], args)

\* C8: with an argument list that lacks a required variable the run goes from
\* parse_args to exit status 1 and nowhere else, and no step of it logs an effect
\* or changes infra/state.tf, infra/.terraform, /tmp/secrets.json or the
\* credentials.
C8_MissingVarExitsUntouched ==
    [][ MissingRequired(argv') =>
          /\ pc' \in {"parse_args", "exited"}
          /\ pc' = "exited" => exit_status' = Exit(1)
          /\ log' = <<>>
          /\ role_creds' = NoCreds
          /\ UNCHANGED <<state_tf, dot_terraform, secrets_link>> ]_vars

\* C8 witness: a run has exited on a missing variable in a directory where an
\* earlier run left infra/state.tf and /tmp/secrets.json behind
C8_Witness ==
    /\ pc = "exited"
    /\ MissingRequired(argv)
    /\ state_tf # NoFile
    /\ secrets_link # NoFile

\* the four variables other than state_aws_region are assigned
FourAssigned(args) ==
    \A v \in {"env", "component", "aws_region", "account_id"} : Assigns(v, args)

\* infra/state.tf holds what the current run wrote
ConfigWritten == pc \in {"terraform", "symlink", "init", "command"}

\* C9: an argument list with env, component, aws_region and account_id but no
\* state_aws_region is accepted by parse_args and the backend config gets
\* region = aws_region; with state_aws_region the region is state_aws_region.
C9_StateRegionOptional ==
    /\ (FourAssigned(argv) /\ pc # "parse_args") => pc # "exited"
    /\ (FourAssigned(argv) /\ ConfigWritten) =>
          state_tf[1].region = IF Assigns("state_aws_region", argv)
                            THEN Assigned("state_aws_region", argv)
                            ELSE Assigned("aws_region", argv)

\* the effects that follow assume_role in main()
AfterAssume == {"write state.tf", "credstash", "symlink", "terraform"}

\* C10: when assume_role fails the run ends as failed with no state.tf written,
\* no secrets step, no symlink and no terraform process; and infra/state.tf is
\* written only when the credentials are there.
C10_AssumeFailureAborts ==
    /\ [](failed_at = "assume_role" =>
            /\ pc = "failed"
            /\ exit_status = Exit(1)
            /\ role_creds = NoCreds
            /\ \A name \in AfterAssume : At(name) = {})
    /\ [](\A name \in AfterAssume : At(name) # {} => role_creds # NoCreds)
    /\ [][ (state_tf' # state_tf /\ state_tf' # NoFile) =>
              (role_creds # NoCreds /\ At("assume_role") # {}) ]_vars

\* C10 witness: assume_role has failed
C10_Witness == failed_at = "assume_role" /\ pc = "failed"

\* the backend configuration the arguments call for
BackendOf(args) ==
    [ bucket         |-> <<"terraform-tfstate-", Md5Hex6(Assigned("account_id", args))>>,
      key            |-> <<Assigned("env", args), "/", Assigned("component", args),
                           "/terraform.tfstate">>,
      region         |-> IF Assigns("state_aws_region", args)
                         THEN Assigned("state_aws_region", args)
                         ELSE Assigned("aws_region", args),
      dynamodb_table |-> "terraform_locks" ]

\* C13: the backend configuration in infra/state.tf is determined by the
\* account id, the chosen region, env and component alone: the bucket is the
\* prefix with the digest of the account id, the key is
\* env/component/terraform.tfstate, the lock table is terraform_locks, whatever
\* else was on the command line and whatever the file held before.
C13_BackendIsFunctionOfFour ==
    ConfigWritten => state_tf = <<BackendOf(argv)>>

\* a second run wrote the configuration, with an argument on the command line
\* that is no assignment
C13_Witness ==
    /\ ConfigWritten
    /\ run = 2
    /\ \E i \in 1..Len(argv) : argv[i] = <<"plan">>
    /\ state_tf = <<BackendOf(argv)>>

\* the log entry of terraform init, and the positions of the two invocations
InitEntry == <<"terraform", "init">>
InitAt == {i \in At("terraform") : log[i] = InitEntry}
CommandAt == At("terraform") \ InitAt

\* C14: terraform init is invoked first and the forwarded command second, the
\* second only when init exited zero and with exactly the command line
\* arguments in their order; both come after infra/state.tf is written and
\* the secrets are linked at /tmp/secrets.json.
C14_InitThenForwardedCommand ==
    /\ Cardinality(InitAt) <= 1
    /\ Cardinality(CommandAt) <= 1
    /\ \A c \in CommandAt :
          /\ InitAt = {c - 1}
          /\ failed_at # "init"
          /\ log[c] = <<"terraform">> \o argv
    /\ failed_at = "init" => CommandAt = {}
    /\ \A i \in InitAt :
          /\ \E w \in At("write state.tf") : w < i
          /\ \E l \in At("symlink") : l < i
    /\ pc \in {"init", "command"} =>
          /\ state_tf = <<generate_terraform_config(parsed_args)>>
          /\ secrets_link # NoFile
          /\ secrets_link = tmp_secrets

\* both invocations were made, with an argument that parse_args does not extract
C14_Witness ==
    /\ pc = "cleanup_end"
    /\ InitAt # {}
    /\ CommandAt # {}
    /\ \E i \in 1..Len(argv) : argv[i] = <<"plan">>

\* a step of cleanup() ends normally and removes what it can
CleanupStep ==
    pc \in {"cleanup", "cleanup_end"} =>
       /\ pc' = IF pc = "cleanup" THEN "assume_role" ELSE "done"
       /\ failed_at' = failed_at
       /\ exit_status' \in {Running, Exit(0)}
       /\ secrets_link' = secrets_link
       /\ state_tf = NoFile => state_tf' = NoFile
       /\ ~dot_terraform => ~dot_terraform'
       /\ cleaned' # NoResult
       /\ cleaned'[1].remove_ok => state_tf' = NoFile
       /\ cleaned'[1].rmtree_ok => ~dot_terraform'
       /\ ~cleaned'[1].remove_ok => state_tf' = state_tf
       /\ ~cleaned'[1].rmtree_ok => dot_terraform' = dot_terraform

\* C15: cleanup() never reports an error: with its targets absent it leaves
\* the files as they are, a removal that succeeds leaves its target absent,
\* and the removal of .terraform does not depend on that of state.tf.
C15_CleanupNeverFails == [][CleanupStep]_vars

\* the closing cleanup could not remove state.tf and removed .terraform
C15_Witness ==
    /\ pc = "done"
    /\ cleaned = <<[remove_ok |-> FALSE, rmtree_ok |-> TRUE]>>
    /\ state_tf # NoFile
    /\ ~dot_terraform

AssumedCredentials == {"assumed-access-key", "assumed-secret-key", "assumed-session-token"}

\* C16: the temporary credentials are only in the copied environment handed
\* to the child processes: os.environ stays as the shell gave it and never
\* holds one of them, and neither infra/state.tf nor the secrets link does.
C16_CredentialsOnlyInChildEnv ==
    /\ os_environ = ShellEnv
    /\ \A k \in DOMAIN os_environ : os_environ[k] \notin AssumedCredentials
    /\ child_env # NoEnv =>
          /\ role_creds # NoCreds
          /\ child_env[1]["AWS_ACCESS_KEY_ID"] = role_creds[1].Credentials.AccessKeyId
          /\ child_env[1]["AWS_SECRET_ACCESS_KEY"] = role_creds[1].Credentials.SecretAccessKey
          /\ child_env[1]["AWS_SESSION_TOKEN"] = role_creds[1].Credentials.SessionToken
          /\ child_env[1]["PATH"] = os_environ["PATH"]
    /\ state_tf # NoFile =>
          \A f \in DOMAIN state_tf[1] : \A c \in AssumedCredentials : state_tf[1][f] # c
    /\ secrets_link # NoFile => \A c \in AssumedCredentials : secrets_link[1] # c

\* terraform() returned after running both children with the credentials
C16_Witness ==
    /\ pc = "cleanup_end"
    /\ child_env # NoEnv
    /\ child_env[1]["AWS_SESSION_TOKEN"] = "assumed-session-token"
    /\ os_environ["AWS_ACCESS_KEY_ID"] = "caller-key"

\* C17: a run in a directory where an earlier run reached terraform() reaches
\* terraform init again: no step before it fails on what the earlier run left.
C17_RerunReachesInit ==
    run >= 2 => failed_at # "symlink"

InitInfraIdle ==
    /\ argv = <<>>
    /\ pc = "idle"
    /\ parsed_args = EmptyMap
    /\ role_creds = NoCreds
    /\ state_tf = NoFile
    /\ dot_terraform = FALSE
    /\ secrets_link = NoFile
    /\ tmp_secrets = NoPath
    /\ log = <<>>
    /\ failed_at = None
    /\ exit_status = Running
    /\ run = 0
    /\ os_environ = ShellEnv
    /\ child_env = NoEnv
    /\ cleaned = NoResult

InitReleaseIdle ==
    /\ version = None
    /\ metadata = [TYPE |-> "docker", DOCKER_BUILD_DIR |-> ".", REGION |-> "eu-west-1",
                   ACCOUNT_PREFIX |-> "mmg", SLUG_BUILDER_DOCKER_OPTS |-> ""]
    /\ metadata0 = metadata
    /\ hooks = {}
    /\ aws = None
    /\ rpc = "idle"
    /\ repo = [exists |-> FALSE, policy |-> FALSE]
    /\ repo0 = repo
    /\ auth_data = <<>>
    /\ logged_in = {}
    /\ calls = <<>>
    /\ raised = NoError
    /\ rfailed_at = None
    /\ prev_ensure = None
    /\ release = 0
    /\ sessions = {}

NextInfra ==
    \/ MainParseArgs
    \/ MainCleanupStart
    \/ MainAssumeRole
    \/ MainGenerateConfig
    \/ TerraformSecrets
    \/ TerraformSymlink
    \/ TerraformInit
    \/ TerraformCommand
    \/ MainCleanupEnd
    \/ NewRun

\* deploy-infra is run and release is not
InitInfraOnly == InitInfra /\ InitReleaseIdle

SpecInfra == InitInfraOnly /\ [][NextInfra]_vars

NextRelease ==
    \/ CreateBuildSlug
    \/ CreatePreBuildHook
    \/ CreateDockerBuild
    \/ CreatePostBuildHook
    \/ CreatePushBranch
    \/ EnsureDescribe
    \/ EnsureCreate
    \/ EnsureSetPolicy
    \/ PushGetToken
    \/ PushDockerLogin
    \/ PushDockerPush
    \/ NewRelease

\* release is run and deploy-infra is not
InitReleaseOnly == InitRelease /\ InitInfraIdle

SpecRelease == InitReleaseOnly /\ [][NextRelease]_vars
====
